---- MODULE Spec2Model ----
(***************************************************************************)
(* A model of pikov (src/pikov/pikov.py): the SQLite-backed store of       *)
(* images, frames, transitions and the start frame, the Transition        *)
(* handles that cache their end points, and the content key of an image.   *)
(*                                                                         *)
(* The four tables of Pikov.create are the variables image, frame,         *)
(* transition and start_frame_id.  The connection is opened with           *)
(* isolation_level = None and PRAGMA foreign_keys = ON (Pikov.open), so    *)
(* every statement commits on its own and a statement that would leave a   *)
(* non-NULL foreign key dangling raises sqlite3.IntegrityError and has no  *)
(* effect.  A NULL child key is never checked by SQLite.                   *)
(***************************************************************************)
EXTENDS Integers, Sequences, FiniteSets, TLC

\* ------------------------------------------------------------------ bounds
\* The code has no limits; the specifications stop adding rows at these.
\* An image has at most MaxPixels pixels (width * height).
MaxPixels == 2
\* SpecImages: at most MaxBitmaps rows in the image table.
MaxBitmaps == 1
\* Spec: at most MaxImages rows in the image table.
MaxImages == 2
\* Spec: at most MaxFrames rows in the frame table.
MaxFrames == 2
\* SpecLookups: the rows of the image and frame tables and the largest
\* transition id are MaxLookupRows together at most.
MaxLookupRows == 3
\* SpecImages: at most MaxGraphFrames rows in the frame table.
MaxGraphFrames == 1
\* SpecHandles: the rows of the frame table and the largest transition id are
\* MaxHandleRows together at most.
MaxHandleRows == 2
\* SpecGraph: at most MaxNodes rows in the frame table.
MaxNodes == 2
\* SpecGraph: transition ids stay within 1..MaxEdges.
MaxEdges == 2
\* SpecWalk, SpecWalkShared: at most MaxWalkRows rows in the frame and transition
\* tables together.
MaxWalkRows == 4
\* SpecWalk, SpecWalkShared: a preview walk of MaxWalkLen frames is not taken further.
MaxWalkLen == 7
\* SpecClips: at most MaxClipFrames rows in the frame table and frames in a clip.
MaxClipFrames == 3
\* Rows of frame and transition together in the property specification.
MaxPropertyRows == 2
\* SpecAtomic: connections that call add_frame at the same time.
MaxCallers == 2

\* ------------------------------------------------------------------ values
\* SQL NULL / Python None, for the integer columns and the handle caches.
NULL == -1
\* SQL NULL / Python None as an image key (keys are tuples in the model).
NoKey == <<>>
\* duration=None of add_frame; a given duration d (in microseconds) is <<d>>.
NoDuration == <<>>

VARIABLES
    image,           \* table image: key -> [contents, content_type]
    frame,           \* table frame: id -> [image_key, duration_microseconds, properties]
    transition,      \* table transition: id -> [source_frame_id, target_frame_id]
    start_frame_id,  \* pikov.start_frame_id of the single pikov row
    handles,         \* the caller's variables that hold a Transition object
    added,           \* history: normalized bitmap -> key add_image returned for it first
    last,            \* the last call: its name, arguments, outcome and result
    preview,         \* the locals of a running Pikov.save_gif or Clip.save_gif
    in_transaction,  \* the connection has a transaction open (sqlite3 in_transaction)
    adding           \* the calls of add_frame between their two statements:
                     \* id of the row inserted -> the arguments of the call

vars == <<image, frame, transition, start_frame_id, handles, added, last, preview,
          in_transaction, adding>>

\* ------------------------------------------------------------------ images
\* A PIL image: its bands (mode), its size (width, height) and its pixels,
\* data[<<x, y>>] being what getpixel((x, y)) returns.
PixelsOf(mode) ==
    IF mode = "RGBA" THEN {<<0, 0, 0, 255>>, <<0, 0, 0, 0>>} ELSE {<<0, 0, 0>>}

Sizes == {s \in (1..MaxPixels) \X (1..MaxPixels) : s[1] * s[2] <= MaxPixels}

Coords(size) == (0..(size[1] - 1)) \X (0..(size[2] - 1))

Images ==
    UNION {
        UNION { { [mode |-> m, size |-> s, data |-> d] :
                    d \in [Coords(s) -> PixelsOf(m)] } : s \in Sizes }
        : m \in {"RGBA", "RGB"} }

getbands(im) == IF im.mode = "RGBA" THEN <<"R", "G", "B", "A">> ELSE <<"R", "G", "B">>

\* image.convert(mode='RGBA') of an RGB image: the alpha band is filled with 255.
convert(im) ==
    [mode |-> "RGBA", size |-> im.size,
     data |-> [c \in DOMAIN im.data |-> im.data[c] \o <<255>>]]

\* The normalized RGBA bitmap of an image (lines 890-892 of hash_image).
Normalize(im) == IF getbands(im) # <<"R", "G", "B", "A">> THEN convert(im) ELSE im

\* The bytes hash_image feeds to md5: x is the outer loop and y the inner one,
\* four bytes per pixel; the size of the image is not fed.
HashStream(im) ==
    LET rgba == Normalize(im)
        h == rgba.size[2] IN
    [j \in 1..(4 * rgba.size[1] * h) |->
        LET p == (j - 1) \div 4 IN rgba.data[<<p \div h, p % h>>][((j - 1) % 4) + 1]]

\* 'md5-' + hexdigest: the digest is taken as collision-free, so the key is
\* the scheme tag with the byte stream itself.
hash_image(im) == <<"md5", HashStream(im)>>

\* image.save(fp, format='PNG'): a lossless container of the image as given
\* (its own mode, size and pixels, not the normalized ones).
PngBytes(im) == <<"PNG", im.mode, im.size, im.data>>

\* PIL.Image.open of stored contents.
PngImage(contents) == [mode |-> contents[2], size |-> contents[3], data |-> contents[4]]

\* ------------------------------------------------------------------ SQLite
\* The rowid SQLite gives to an INSERT into a table with an
\* INTEGER PRIMARY KEY that is not AUTOINCREMENT: one more than the largest
\* rowid in the table, 1 for an empty table.
MaxOf(S) == CHOOSE m \in S : \A x \in S : x <= m

NextRowid(table) == IF DOMAIN table = {} THEN 1 ELSE MaxOf(DOMAIN table) + 1

\* Mutant: foreign keys are not enforced (PRAGMA foreign_keys left OFF).
ForeignKeyUnchecked(value, null, parent) == TRUE

\* FOREIGN KEY(...) REFERENCES parent: a NULL child key is not checked.
ForeignKeyOk(value, null, parent) == value = null \/ value \in DOMAIN parent

Call(op, arg, outcome, ret) == [op |-> op, arg |-> arg, outcome |-> outcome, ret |-> ret]

\* Python values set_property is given or get_property returns: None, an
\* int, a tuple or a list of ints, or an object json.dumps cannot serialize
\* (it raises TypeError).
PyNone == <<"None">>

PyInt(n) == <<"int", n>>

PyTuple(items) == <<"tuple", items>>

PyList(items) == <<"list", items>>

PyObject == <<"object">>

Serializable(value) == value # PyObject

\* JSON values: null, a number, an array of numbers.
JsonNull == <<"null">>

JsonNumber(n) == <<"number", n>>

JsonArray(items) == <<"array", items>>

\* json.dumps of a value it can serialize: a tuple is written as an array,
\* as a list is.
JsonDumps(value) ==
    IF value = PyNone THEN JsonNull
    ELSE IF value[1] = "int" THEN JsonNumber(value[2])
    ELSE JsonArray(value[2])

\* json.loads of a JSON value: an array is read as a list.
JsonLoads(json) ==
    IF json = JsonNull THEN PyNone
    ELSE IF json[1] = "number" THEN PyInt(json[2])
    ELSE PyList(json[2])

\* The properties column of a frame: NULL, or the JSON text of a mapping,
\* kept as the JSON object it denotes.
NullProperties == <<"NULL">>

\* json.dumps of a bag.
JsonText(bag) == <<"json", [k \in DOMAIN bag |-> JsonDumps(bag[k])]>>

\* ------------------------------------------------------------------ Pikov
\* Mutant: INSERT OR REPLACE, so a duplicate key overwrites the stored row
\* and is reported as inserted.
AddImageReplace(im) ==
    LET image_hash == hash_image(im)
        bitmap == Normalize(im) IN
    /\ image' = (image_hash :> [contents |-> PngBytes(im),
                                 content_type |-> "image/png"]) @@ image
    /\ last' = Call("add_image", im, "ok", <<image_hash, TRUE>>)
    /\ added' = IF bitmap \in DOMAIN added THEN added
                ELSE (bitmap :> image_hash) @@ added
    /\ UNCHANGED <<frame, transition, start_frame_id, handles, preview, in_transaction, adding>>

\* Pikov.add_image: INSERT INTO image; a duplicate key raises IntegrityError,
\* which is caught and reported as (key, False).
AddImage(im) ==
    LET image_hash == hash_image(im)
        bitmap == Normalize(im) IN
    /\ IF image_hash \in DOMAIN image
       THEN /\ image' = image
            /\ last' = Call("add_image", im, "ok", <<image_hash, FALSE>>)
       ELSE /\ image' = (image_hash :> [contents |-> PngBytes(im),
                                        content_type |-> "image/png"]) @@ image
            /\ last' = Call("add_image", im, "ok", <<image_hash, TRUE>>)
    /\ added' = IF bitmap \in DOMAIN added THEN added
                ELSE (bitmap :> image_hash) @@ added
    /\ UNCHANGED <<frame, transition, start_frame_id, handles, preview, in_transaction, adding>>

\* Pikov.get_image: NotFound unless a row with the key exists.
GetImage(key) ==
    /\ last' = IF key \in DOMAIN image
               THEN Call("get_image", key, "ok", key)
               ELSE Call("get_image", key, "NotFound", NoKey)
    /\ UNCHANGED <<image, frame, transition, start_frame_id, handles, added, preview, in_transaction, adding>>

\* ------------------------------------------------------------------ float
\* A Python float (IEEE 754 binary64) x is kept exactly, as its sign and the
\* digits of the integer |x| * 2^(LimbBits * FracLimbs) in base 2^LimbBits,
\* least significant first.  Every float the program computes from
\* durations of whole microseconds below 2^31 is such an integer below
\* Base^NumLimbs.
LimbBits == 10

Base == 2^LimbBits

FracLimbs == 8

NumLimbs == 12

\* The bits of the significand of a float.
Precision == 53

Limbs == 1..NumLimbs

\* The digits of zero.
ZeroDigits == [i \in Limbs |-> 0]

\* The digits of the natural number n.
IntDigits(n) ==
    [i \in Limbs |-> IF i <= FracLimbs THEN 0 ELSE (n \div Base^(i - FracLimbs - 1)) % Base]

\* The digits of 2^k.
PowerOfTwo(k) == [i \in Limbs |-> IF i = k \div LimbBits + 1 THEN 2^(k % LimbBits) ELSE 0]

\* Bit k of the number of the digits n, bit 0 the least significant.
Bit(n, k) == (n[k \div LimbBits + 1] \div 2^(k % LimbBits)) % 2

\* The bits of the digit i of n that are bits below bit k of the number.
BitsBelow(n, k, i) ==
    IF LimbBits * i <= k THEN n[i]
    ELSE IF LimbBits * (i - 1) >= k THEN 0
    ELSE n[i] % 2^(k - LimbBits * (i - 1))

\* Some bit of n below bit k is set.
AnyBelow(n, k) == \E i \in Limbs : BitsBelow(n, k, i) # 0

\* n with the bits below bit k cleared.
ClearBelow(n, k) == [i \in Limbs |-> n[i] - BitsBelow(n, k, i)]

\* The index of the highest bit set in n, which is not zero.
TopBit(n) ==
    LET i == CHOOSE i \in Limbs : n[i] # 0 /\ \A j \in Limbs : j > i => n[j] = 0
        k == CHOOSE k \in 0..(LimbBits - 1) : 2^k <= n[i] /\ n[i] < 2^(k + 1) IN
    LimbBits * (i - 1) + k

\* a < b, for digits.
Less(a, b) ==
    \E i \in Limbs : a[i] < b[i] /\ \A j \in Limbs : j > i => a[j] = b[j]

\* The digits i.. of a + b with the carry into digit i.
RECURSIVE AddFrom(_, _, _, _)
AddFrom(a, b, i, carry) ==
    IF i > NumLimbs THEN <<>>
    ELSE LET sum == a[i] + b[i] + carry IN
         <<sum % Base>> \o AddFrom(a, b, i + 1, sum \div Base)

Add(a, b) == AddFrom(a, b, 1, 0)

\* The digits i.. of a - b, a >= b, with the borrow from digit i.
RECURSIVE SubtractFrom(_, _, _, _)
SubtractFrom(a, b, i, borrow) ==
    IF i > NumLimbs THEN <<>>
    ELSE LET difference == a[i] - b[i] - borrow IN
         <<IF difference < 0 THEN difference + Base ELSE difference>>
            \o SubtractFrom(a, b, i + 1, IF difference < 0 THEN 1 ELSE 0)

Subtract(a, b) == SubtractFrom(a, b, 1, 0)

\* The digits i.. of n * k with the carry into digit i, k <= 10^6.
RECURSIVE MultiplyFrom(_, _, _, _)
MultiplyFrom(n, k, i, carry) ==
    IF i > NumLimbs THEN <<>>
    ELSE LET product == n[i] * k + carry IN
         <<product % Base>> \o MultiplyFrom(n, k, i + 1, product \div Base)

Multiply(n, k) == MultiplyFrom(n, k, 1, 0)

\* Long division of the digits i..1 of n by d <= 10^6, with the remainder of
\* the digits above them: the digits of the quotient, and the remainder.
RECURSIVE DivideFrom(_, _, _, _)
DivideFrom(n, d, i, remainder) ==
    IF i = 0 THEN <<<<>>, remainder>>
    ELSE LET dividend == remainder * Base + n[i]
             rest == DivideFrom(n, d, i - 1, dividend % d) IN
         <<Append(rest[1], dividend \div d), rest[2]>>

\* Round to nearest, ties to even, to Precision significant bits: n are the
\* digits of the result truncated, and inexact says that bits below them
\* were cut off.
RoundToNearest(n, inexact) ==
    IF n = ZeroDigits THEN n
    ELSE LET lsb == TopBit(n) - (Precision - 1) IN
         IF lsb <= 0 THEN n
         ELSE LET half == Bit(n, lsb - 1) = 1
                  more == inexact \/ AnyBelow(n, lsb - 1)
                  odd == Bit(n, lsb) = 1
                  down == ClearBelow(n, lsb) IN
              IF half /\ (more \/ odd) THEN Add(down, PowerOfTwo(lsb)) ELSE down

\* A float of a sign and digits; zero is 0.0.
PyFloat(sign, digits) == [sign |-> IF digits = ZeroDigits THEN 1 ELSE sign, digits |-> digits]

Sign(n) == IF n < 0 THEN -1 ELSE 1

Abs(n) == IF n < 0 THEN -n ELSE n

\* n / d of two ints, d positive: the float nearest to the quotient.
TrueDivide(n, d) ==
    LET q == DivideFrom(IntDigits(Abs(n)), d, NumLimbs, 0) IN
    PyFloat(Sign(n), RoundToNearest(q[1], q[2] # 0))

\* x * k of a float and a positive int k: the float nearest to the product.
FloatTimes(x, k) == PyFloat(x.sign, RoundToNearest(Multiply(x.digits, k), FALSE))

\* x + y of two floats: the float nearest to the sum.
FloatPlus(x, y) ==
    IF x.sign = y.sign
    THEN PyFloat(x.sign, RoundToNearest(Add(x.digits, y.digits), FALSE))
    ELSE IF Less(x.digits, y.digits)
    THEN PyFloat(y.sign, RoundToNearest(Subtract(y.digits, x.digits), FALSE))
    ELSE PyFloat(x.sign, RoundToNearest(Subtract(x.digits, y.digits), FALSE))

\* int(x): x truncated toward zero.
RECURSIVE WholeFrom(_, _)
WholeFrom(digits, i) ==
    IF i > NumLimbs THEN 0 ELSE digits[i] + Base * WholeFrom(digits, i + 1)

IntOfFloat(x) == x.sign * WholeFrom(x.digits, FracLimbs + 1)

\* timedelta.total_seconds() of a duration of whole microseconds:
\* microseconds / 10**6.
TotalSeconds(microseconds) == TrueDivide(microseconds, 1000000)

\* int(duration.total_seconds() * 1000000) of add_frame, the duration being
\* timedelta(microseconds=100000) when it is None.
DurationMicroseconds(duration) ==
    LET microseconds == IF duration = NoDuration THEN 100000 ELSE duration[1] IN
    IntOfFloat(FloatTimes(TotalSeconds(microseconds), 1000000))

\* A function without the entry of x.
Without(f, x) == [y \in DOMAIN f \ {x} |-> f[y]]

\* Pikov.add_frame up to the INSERT INTO frame; properties is not given a
\* value, so it is NULL.  The connection is in autocommit mode
\* (isolation_level = None, Pikov.open) and add_frame executes no BEGIN, so
\* the statement is committed when it returns and no transaction is open
\* after it.  An IntegrityError of the INSERT ends the call.
AddFrameInsert(image_key, duration) ==
    LET frame_id == NextRowid(frame) IN
    /\ IF ForeignKeyOk(image_key, NoKey, image)
       THEN /\ frame' = (frame_id :> [image_key |-> image_key,
                                      duration_microseconds |-> DurationMicroseconds(duration),
                                      properties |-> NullProperties]) @@ frame
            /\ adding' = (frame_id :> <<image_key, duration>>) @@ adding
            /\ last' = Call("add_frame", <<image_key, duration>>, "running", frame_id)
       ELSE /\ UNCHANGED <<frame, adding>>
            /\ last' = Call("add_frame", <<image_key, duration>>, "IntegrityError", NULL)
    /\ UNCHANGED <<image, transition, start_frame_id, handles, added, preview, in_transaction>>

\* Mutant: the UPDATE of the start frame without "AND start_frame_id IS NULL".
AddFrameUpdateAlways(frame_id) ==
    /\ frame_id \in DOMAIN adding
    /\ start_frame_id' = frame_id
    /\ adding' = Without(adding, frame_id)
    /\ last' = Call("add_frame", adding[frame_id], "ok", frame_id)
    /\ UNCHANGED <<image, frame, transition, handles, added, preview, in_transaction>>

\* Pikov.add_frame from the UPDATE of the start frame, which sets it if it
\* is NULL, to the return of the Frame of the row inserted.
AddFrameUpdate(frame_id) ==
    /\ frame_id \in DOMAIN adding
    /\ start_frame_id' = IF start_frame_id = NULL THEN frame_id ELSE start_frame_id
    /\ adding' = Without(adding, frame_id)
    /\ last' = Call("add_frame", adding[frame_id], "ok", frame_id)
    /\ UNCHANGED <<image, frame, transition, handles, added, preview, in_transaction>>

\* Pikov.add_frame interrupted between its two statements by
\* KeyboardInterrupt: the with block of the connection rolls back, which
\* undoes nothing because no transaction is open.
AddFrameInterrupted(frame_id) ==
    /\ frame_id \in DOMAIN adding
    /\ adding' = Without(adding, frame_id)
    /\ last' = Call("add_frame", adding[frame_id], "KeyboardInterrupt", frame_id)
    /\ UNCHANGED <<image, frame, transition, start_frame_id, handles, added, preview,
                   in_transaction>>

\* Pikov.add_frame when its UPDATE statement fails in SQLite (the database
\* is locked by another connection): the statement changes no row, the
\* sqlite3 error leaves the with block, whose rollback undoes nothing, and
\* the row of the INSERT stays.
AddFrameUpdateFails(frame_id) ==
    /\ frame_id \in DOMAIN adding
    /\ adding' = Without(adding, frame_id)
    /\ last' = Call("add_frame", adding[frame_id], "OperationalError", frame_id)
    /\ UNCHANGED <<image, frame, transition, start_frame_id, handles, added, preview,
                   in_transaction>>

\* Pikov.get_frame: NotFound unless a row with the id exists.
GetFrame(frame_id) ==
    /\ last' = IF frame_id \in DOMAIN frame
               THEN Call("get_frame", frame_id, "ok", frame_id)
               ELSE Call("get_frame", frame_id, "NotFound", NULL)
    /\ UNCHANGED <<image, frame, transition, start_frame_id, handles, added, preview, in_transaction, adding>>

\* The setter of Pikov.start_frame: frame is None (NULL here) or a Frame
\* handle, given by its id.
SetStartFrame(frame_id) ==
    /\ IF ForeignKeyOk(frame_id, NULL, frame)
       THEN /\ start_frame_id' = frame_id
            /\ last' = Call("set_start_frame", frame_id, "ok", NULL)
       ELSE /\ start_frame_id' = start_frame_id
            /\ last' = Call("set_start_frame", frame_id, "IntegrityError", NULL)
    /\ UNCHANGED <<image, frame, transition, handles, added, preview, in_transaction, adding>>

\* No Pikov.save_gif and no Clip.save_gif is running: the locals of
\* _preview_clip and of get_random_next, and those of Clip.save_gif (the
\* call op(arg) that runs it, the frames its loop has not finished, with the
\* frame of the pass at their head, duration, previous_image, the key of
\* the Image that frame.image gave, imgs and durations).
Idle == [pc |-> "idle", op |-> "", arg |-> <<>>,
         start_frame |-> NULL, min_duration |-> 0, max_duration |-> 0,
         current_frame |-> NULL, preview_frames |-> <<>>, total_duration |-> 0,
         next_frame |-> NULL, transitions |-> <<>>, target_frames |-> <<>>,
         frames |-> <<>>, duration |-> PyFloat(1, ZeroDigits),
         previous_image |-> NoKey, image |-> NoKey, imgs |-> <<>>,
         durations |-> <<>>]

Init ==
    /\ image = <<>>
    /\ frame = <<>>
    /\ transition = <<>>
    /\ start_frame_id = NULL
    /\ handles = <<>>
    /\ added = <<>>
    /\ last = Call("create", <<>>, "ok", <<>>)
    /\ preview = Idle
    /\ in_transaction = FALSE
    /\ adding = <<>>

\* ------------------------------------------------------------------ Frame
\* The bag Frame._get_properties makes of the properties column it has read:
\* {} for a NULL (or empty) column, else json.loads of the text.
LoadProperties(properties) ==
    IF properties = NullProperties THEN <<>>
    ELSE [k \in DOMAIN properties[2] |-> JsonLoads(properties[2][k])]

\* Frame._get_properties of a frame whose row exists.
GetProperties(frame_id) == LoadProperties(frame[frame_id].properties)

\* Frame.get_property: properties.get(key) of the bag read back, None for a
\* key the bag does not have; a Frame handle whose row is missing fails in
\* _get_properties (row is None).
GetProperty(frame_id, key) ==
    /\ last' = IF frame_id \notin DOMAIN frame
               THEN Call("get_property", <<frame_id, key>>, "TypeError", NULL)
               ELSE IF key \in DOMAIN GetProperties(frame_id)
               THEN Call("get_property", <<frame_id, key>>, "ok", GetProperties(frame_id)[key])
               ELSE Call("get_property", <<frame_id, key>>, "ok", PyNone)
    /\ UNCHANGED <<image, frame, transition, start_frame_id, handles, added, preview,
                   in_transaction, adding>>

\* Mutant: the except clause raises again without ROLLBACK, so the
\* transaction of BEGIN stays open.
SetPropertyNoRollback(frame_id, key, value) ==
    /\ IF frame_id \in DOMAIN frame /\ Serializable(value)
       THEN /\ frame' = [frame EXCEPT ![frame_id].properties =
                            JsonText((key :> value) @@ GetProperties(frame_id))]
            /\ last' = Call("set_property", <<frame_id, key, value>>, "ok", NULL)
            /\ in_transaction' = FALSE
       ELSE /\ frame' = frame
            /\ last' = Call("set_property", <<frame_id, key, value>>, "TypeError", NULL)
            /\ in_transaction' = TRUE
    /\ UNCHANGED <<image, transition, start_frame_id, handles, added, preview, adding>>

\* Frame.set_property: BEGIN, read the bag, set the key, json.dumps, UPDATE,
\* COMMIT; any exception rolls back and is raised again.  A Frame handle
\* whose row is missing fails in _get_properties (row is None), and a value
\* json.dumps rejects fails before the UPDATE.  COMMIT and ROLLBACK both end
\* the transaction BEGIN has opened.
SetProperty(frame_id, key, value) ==
    /\ IF frame_id \in DOMAIN frame /\ Serializable(value)
       THEN /\ frame' = [frame EXCEPT ![frame_id].properties =
                            JsonText((key :> value) @@ GetProperties(frame_id))]
            /\ last' = Call("set_property", <<frame_id, key, value>>, "ok", NULL)
       ELSE /\ frame' = frame
            /\ last' = Call("set_property", <<frame_id, key, value>>, "TypeError", NULL)
    /\ in_transaction' = FALSE
    /\ UNCHANGED <<image, transition, start_frame_id, handles, added, preview, adding>>

\* Frame.set_property when the UPDATE statement fails in SQLite (the database
\* is locked or cannot be written): the statement changes no row, the
\* except clause rolls back and the sqlite3 error is raised again.
SetPropertyUpdateFails(frame_id, key, value) ==
    /\ frame_id \in DOMAIN frame
    /\ Serializable(value)
    /\ frame' = frame
    /\ last' = Call("set_property", <<frame_id, key, value>>, "OperationalError", NULL)
    /\ in_transaction' = FALSE
    /\ UNCHANGED <<image, transition, start_frame_id, handles, added, preview, adding>>

\* A new Transition object (Transition.__init__).
NewHandle(id) == [id |-> id, deleted |-> FALSE, source |-> NULL, target |-> NULL]

\* The caller binds the Transition it is given to the variable v, or drops
\* it when v is Discard.
Discard == "_"

Bind(v, handle) == IF v = Discard THEN handles ELSE (v :> handle) @@ handles

\* Mutant: at most one transition per (source, target): INSERT OR IGNORE
\* under a UNIQUE constraint, the existing row being returned.
TransitionToUnique(source_id, target_id, v) ==
    LET id == NextRowid(transition)
        same == {i \in DOMAIN transition :
                    /\ transition[i].source_frame_id = source_id
                    /\ transition[i].target_frame_id = target_id} IN
    /\ IF /\ ForeignKeyOk(source_id, NULL, frame)
          /\ ForeignKeyOk(target_id, NULL, frame)
       THEN IF same # {}
            THEN /\ transition' = transition
                 /\ handles' = Bind(v, NewHandle(MaxOf(same)))
                 /\ last' = Call("transition_to", <<source_id, target_id>>, "ok", MaxOf(same))
            ELSE /\ transition' = (id :> [source_frame_id |-> source_id,
                                          target_frame_id |-> target_id]) @@ transition
                 /\ handles' = Bind(v, NewHandle(id))
                 /\ last' = Call("transition_to", <<source_id, target_id>>, "ok", id)
       ELSE /\ UNCHANGED <<transition, handles>>
            /\ last' = Call("transition_to", <<source_id, target_id>>,
                            "IntegrityError", NULL)
    /\ UNCHANGED <<image, frame, start_frame_id, added, preview, in_transaction, adding>>

\* Frame.transition_to: INSERT INTO transition with the ids of the two
\* handles; both columns are foreign keys to frame(id).
TransitionTo(source_id, target_id, v) ==
    LET id == NextRowid(transition) IN
    /\ IF /\ ForeignKeyOk(source_id, NULL, frame)
          /\ ForeignKeyOk(target_id, NULL, frame)
       THEN /\ transition' = (id :> [source_frame_id |-> source_id,
                                     target_frame_id |-> target_id]) @@ transition
            /\ handles' = Bind(v, NewHandle(id))
            /\ last' = Call("transition_to", <<source_id, target_id>>, "ok", id)
       ELSE /\ UNCHANGED <<transition, handles>>
            /\ last' = Call("transition_to", <<source_id, target_id>>,
                            "IntegrityError", NULL)
    /\ UNCHANGED <<image, frame, start_frame_id, added, preview, in_transaction, adding>>

\* SELECT id FROM transition WHERE source_frame_id = ? ORDER BY
\* target_frame_id ASC: rows with the same target come in rowid order (the
\* table is scanned by rowid and SQLite's sorter keeps that order).
\* Mutant: the SELECT without its ORDER BY clause, rows in rowid order.
RECURSIVE SortByRowid(_, _)
SortByRowid(table, ids) ==
    IF ids = {} THEN <<>>
    ELSE LET first == CHOOSE i \in ids : \A j \in ids : i <= j
         IN <<first>> \o SortByRowid(table, ids \ {first})

RECURSIVE SortByTarget(_, _)
SortByTarget(table, ids) ==
    IF ids = {} THEN <<>>
    ELSE LET first == CHOOSE i \in ids : \A j \in ids :
                          \/ table[i].target_frame_id < table[j].target_frame_id
                          \/ /\ table[i].target_frame_id = table[j].target_frame_id
                             /\ i <= j
         IN <<first>> \o SortByTarget(table, ids \ {first})

SelectTransitions(table, frame_id) ==
    SortByTarget(table, {i \in DOMAIN table : table[i].source_frame_id = frame_id})

Transitions(frame_id) == SelectTransitions(transition, frame_id)

\* Frame.transitions: a tuple of new Transition objects, empty for a frame
\* that no transition leaves and for a Frame whose row is missing.  The
\* caller binds the one at position i to the variable v when the tuple has
\* one there.
FrameTransitions(frame_id, i, v) ==
    LET ids == Transitions(frame_id) IN
    /\ handles' = IF i \in 1..Len(ids) THEN Bind(v, NewHandle(ids[i])) ELSE handles
    /\ last' = Call("transitions", frame_id, "ok", ids)
    /\ UNCHANGED <<image, frame, transition, start_frame_id, added, preview, in_transaction, adding>>

\* ------------------------------------------------------------------ Transition
\* Mutant: the cached Frame is returned before the deleted flag is looked at.
ReadSourceCacheFirst(v) ==
    LET t == handles[v] IN
    /\ IF t.source # NULL
       THEN /\ handles' = handles
            /\ last' = Call("source", v, "ok", t.source)
       ELSE IF t.deleted
       THEN /\ handles' = handles
            /\ last' = Call("source", v, "ValueError", NULL)
       ELSE IF t.id \notin DOMAIN transition
       THEN /\ handles' = handles
            /\ last' = Call("source", v, "TypeError", NULL)
       ELSE /\ handles' = [handles EXCEPT ![v].source = transition[t.id].source_frame_id]
            /\ last' = Call("source", v, "ok", transition[t.id].source_frame_id)
    /\ UNCHANGED <<image, frame, transition, start_frame_id, added, preview, in_transaction, adding>>

\* Transition.source on the handle in variable v: ValueError once the handle
\* is deleted, the cached Frame if there is one, else the row is read
\* (row[0] of a missing row raises TypeError) and cached.
ReadSource(v) ==
    LET t == handles[v] IN
    /\ IF t.deleted
       THEN /\ handles' = handles
            /\ last' = Call("source", v, "ValueError", NULL)
       ELSE IF t.source # NULL
       THEN /\ handles' = handles
            /\ last' = Call("source", v, "ok", t.source)
       ELSE IF t.id \notin DOMAIN transition
       THEN /\ handles' = handles
            /\ last' = Call("source", v, "TypeError", NULL)
       ELSE /\ handles' = [handles EXCEPT ![v].source = transition[t.id].source_frame_id]
            /\ last' = Call("source", v, "ok", transition[t.id].source_frame_id)
    /\ UNCHANGED <<image, frame, transition, start_frame_id, added, preview, in_transaction, adding>>

\* Transition.target, as Transition.source.
ReadTarget(v) ==
    LET t == handles[v] IN
    /\ IF t.deleted
       THEN /\ handles' = handles
            /\ last' = Call("target", v, "ValueError", NULL)
       ELSE IF t.target # NULL
       THEN /\ handles' = handles
            /\ last' = Call("target", v, "ok", t.target)
       ELSE IF t.id \notin DOMAIN transition
       THEN /\ handles' = handles
            /\ last' = Call("target", v, "TypeError", NULL)
       ELSE /\ handles' = [handles EXCEPT ![v].target = transition[t.id].target_frame_id]
            /\ last' = Call("target", v, "ok", transition[t.id].target_frame_id)
    /\ UNCHANGED <<image, frame, transition, start_frame_id, added, preview, in_transaction, adding>>

\* DELETE FROM transition WHERE id = ?: no error when no row has the id.
DeleteRow(table, id) == [i \in DOMAIN table \ {id} |-> table[i]]

\* Transition.delete on the handle in variable v: ValueError once the
\* handle is deleted; else the DELETE runs and the handle is marked.
Delete(v) ==
    LET t == handles[v] IN
    /\ IF t.deleted
       THEN /\ UNCHANGED <<transition, handles>>
            /\ last' = Call("delete", v, "ValueError", NULL)
       ELSE /\ transition' = DeleteRow(transition, t.id)
            /\ handles' = [handles EXCEPT ![v].deleted = TRUE]
            /\ last' = Call("delete", v, "ok", NULL)
    /\ UNCHANGED <<image, frame, start_frame_id, added, preview, in_transaction, adding>>

\* ------------------------------------------------------------------ absorbing frames
\* The ids of a set of rows in ascending order (ORDER BY frame_id ASC).
RECURSIVE Ascending(_)
Ascending(ids) ==
    IF ids = {} THEN <<>>
    ELSE LET first == CHOOSE i \in ids : \A j \in ids : i <= j
         IN <<first>> \o Ascending(ids \ {first})

\* Mutant: the join without "AND frame.id != transition.target_frame_id".
JoinOnSourceOnly(table, frame_id, t) == table[t].source_frame_id = frame_id

\* The ON condition of the join in find_absorbing_frames.
JoinOn(table, frame_id, t) ==
    /\ frame_id = table[t].source_frame_id
    /\ frame_id # table[t].target_frame_id

\* frame LEFT OUTER JOIN transition: for a frame, one row per transition
\* that meets the ON condition, or one row of NULLs when there is none.
LeftOuterJoin(table, frame_id) ==
    LET matched == Ascending({t \in DOMAIN table : JoinOn(table, frame_id, t)}) IN
    IF matched = <<>>
    THEN <<[frame_id |-> frame_id, source_frame_id |-> NULL]>>
    ELSE [k \in 1..Len(matched) |->
            [frame_id |-> frame_id,
             source_frame_id |-> table[matched[k]].source_frame_id]]

RECURSIVE JoinedRows(_, _)
JoinedRows(table, frame_ids) ==
    IF frame_ids = <<>> THEN <<>>
    ELSE LeftOuterJoin(table, Head(frame_ids)) \o JoinedRows(table, Tail(frame_ids))

IsNullSource(row) == row.source_frame_id = NULL

\* The query of find_absorbing_frames over the two tables: WHERE
\* transition.source_frame_id IS NULL ORDER BY frame_id ASC.
SelectAbsorbing(frames, table) ==
    LET rows == SelectSeq(JoinedRows(table, Ascending(DOMAIN frames)), IsNullSource) IN
    [k \in 1..Len(rows) |-> rows[k].frame_id]

\* The ids find_absorbing_frames returns.
AbsorbingFrames == SelectAbsorbing(frame, transition)

\* Pikov.find_absorbing_frames.
FindAbsorbingFrames ==
    /\ last' = Call("find_absorbing_frames", <<>>, "ok", AbsorbingFrames)
    /\ UNCHANGED <<image, frame, transition, start_frame_id, handles, added, preview, in_transaction, adding>>

\* ------------------------------------------------------------------ Clip
\* What a call has written to fp: nothing.
NoGif == <<>>

\* frame.duration.total_seconds() * 1000 of a frame whose duration is
\* timedelta(microseconds=duration_microseconds): a float.
Milliseconds(duration_microseconds) == FloatTimes(TotalSeconds(duration_microseconds), 1000)

\* imgs[0].save(fp, format='gif', append_images=imgs[1:], duration=...):
\* the encoded frames, each the image opened from stored contents with its
\* display time.
GifFrames(imgs, durations) ==
    [k \in 1..Len(imgs) |-> [image |-> imgs[k], duration |-> durations[k]]]

\* The locals of Clip.save_gif, run by the call op(arg), at the start of
\* its loop over the frames.
ClipLocals(op, arg, frames) ==
    [Idle EXCEPT !.pc = "duration", !.op = op, !.arg = arg, !.frames = frames]

\* Clip.save_gif reads the database one statement at a time, each committed
\* on its own (the connection has isolation_level None), so that a pass of
\* its loop is the steps ClipFrameDuration and ClipFrameImage and, for a
\* frame that does not continue the run, ClipPreviousImage, ClipImage and
\* ClipImageContents.

\* The call that runs Clip.save_gif ends, with an exception or with the
\* frames that imgs[0].save has written.
ClipEnds(outcome, written) ==
    /\ last' = Call(preview.op, preview.arg, outcome, written)
    /\ preview' = Idle

\* The pass of the loop is over: the loop goes on with the next frame, or,
\* after the last one, imgs[0].save writes the frames to fp.
ClipContinue(previous_image, imgs, durations) ==
    IF Len(preview.frames) = 1
    THEN ClipEnds("ok", GifFrames(imgs, durations))
    ELSE /\ preview' = [preview EXCEPT
              !.frames = Tail(@),
              !.previous_image = previous_image,
              !.imgs = imgs,
              !.durations = durations,
              !.pc = "duration"]
         /\ last' = last

\* Clip(frames).save_gif(fp) on a new fp, up to its loop: NotFound for an
\* empty clip.
ClipSaveGif(frames) ==
    /\ preview.pc = "idle"
    /\ IF frames = <<>>
       THEN /\ last' = Call("Clip.save_gif", frames, "NotFound", NoGif)
            /\ preview' = preview
       ELSE /\ last' = last
            /\ preview' = ClipLocals("Clip.save_gif", frames, frames)
    /\ UNCHANGED <<image, frame, transition, start_frame_id, handles, added, in_transaction, adding>>

\* duration = frame.duration.total_seconds() * 1000: the duration of the
\* frame of the pass is read; a Frame whose row is missing fails there
\* (row[0] of None).
ClipFrameDuration ==
    LET f == Head(preview.frames) IN
    /\ preview.pc = "duration"
    /\ IF f \notin DOMAIN frame
       THEN ClipEnds("TypeError", NoGif)
       ELSE /\ preview' = [preview EXCEPT
                 !.duration = Milliseconds(frame[f].duration_microseconds),
                 !.pc = "if"]
            /\ last' = last
    /\ UNCHANGED <<image, frame, transition, start_frame_id, handles, added, in_transaction, adding>>

\* Mutant: every frame is encoded, equal neighbours included.
ClipFrameImageEach ==
    LET f == Head(preview.frames) IN
    /\ preview.pc = "if"
    /\ IF f \notin DOMAIN frame
       THEN ClipEnds("TypeError", NoGif)
       ELSE /\ preview' = [preview EXCEPT !.pc = "previous_image"]
            /\ last' = last
    /\ UNCHANGED <<image, frame, transition, start_frame_id, handles, added, in_transaction, adding>>

\* if previous_image == frame.image.key: the image key of the frame is
\* read; when it is previous_image, the duration is added to durations[-1]
\* and the pass is over.  An image key that is None equals the initial
\* previous_image, so durations[-1] of the empty list raises IndexError.
ClipFrameImage ==
    LET f == Head(preview.frames) IN
    /\ preview.pc = "if"
    /\ IF f \notin DOMAIN frame
       THEN ClipEnds("TypeError", NoGif)
       ELSE IF preview.previous_image = frame[f].image_key
       THEN IF preview.durations = <<>>
            THEN ClipEnds("IndexError", NoGif)
            ELSE ClipContinue(preview.previous_image, preview.imgs,
                              [preview.durations EXCEPT
                                  ![Len(preview.durations)] = FloatPlus(@, preview.duration)])
       ELSE /\ preview' = [preview EXCEPT !.pc = "previous_image"]
            /\ last' = last
    /\ UNCHANGED <<image, frame, transition, start_frame_id, handles, added, in_transaction, adding>>

\* previous_image = frame.image.key: the image key is read again.
ClipPreviousImage ==
    LET f == Head(preview.frames) IN
    /\ preview.pc = "previous_image"
    /\ IF f \notin DOMAIN frame
       THEN ClipEnds("TypeError", NoGif)
       ELSE /\ preview' = [preview EXCEPT
                 !.previous_image = frame[f].image_key,
                 !.pc = "image"]
            /\ last' = last
    /\ UNCHANGED <<image, frame, transition, start_frame_id, handles, added, in_transaction, adding>>

\* frame.image of frame.image.contents: the image key is read once more,
\* into a new Image.
ClipImage ==
    LET f == Head(preview.frames) IN
    /\ preview.pc = "image"
    /\ IF f \notin DOMAIN frame
       THEN ClipEnds("TypeError", NoGif)
       ELSE /\ preview' = [preview EXCEPT
                 !.image = frame[f].image_key,
                 !.pc = "contents"]
            /\ last' = last
    /\ UNCHANGED <<image, frame, transition, start_frame_id, handles, added, in_transaction, adding>>

\* The contents of that Image are read (an image key without a row, None
\* included, fails there: row[0] of None) and opened, the image and the
\* duration are appended, and the pass is over.
ClipImageContents ==
    /\ preview.pc = "contents"
    /\ IF preview.image \notin DOMAIN image
       THEN ClipEnds("TypeError", NoGif)
       ELSE ClipContinue(preview.previous_image,
                         Append(preview.imgs, PngImage(image[preview.image].contents)),
                         Append(preview.durations, preview.duration))
    /\ UNCHANGED <<image, frame, transition, start_frame_id, handles, added, in_transaction, adding>>

\* ------------------------------------------------------------------ preview
\* Mutant: the frame itself is a candidate even when it has transitions.
RandomNextOrStay(self, target_frames) ==
    {self} \cup {target_frames[k] : k \in 1..Len(target_frames)}

\* Frame.get_random_next once target_frames is built: the frame itself when
\* the tuple is empty, else the entry that random.randrange picks, the
\* tuple having one entry per transition.
RandomNext(self, target_frames) ==
    IF target_frames = <<>>
    THEN {self}
    ELSE {target_frames[k] : k \in 1..Len(target_frames)}

\* The locals of _preview_clip at its start.
Locals(arg, start, min_duration, max_duration) ==
    [Idle EXCEPT
        !.pc = "while", !.op = "save_gif", !.arg = arg,
        !.start_frame = start, !.min_duration = min_duration,
        !.max_duration = max_duration, !.next_frame = start]

\* Mutant: the stored start frame is used whatever the argument is.
SaveGifStoredStart(start_frame, min_duration, max_duration) ==
    LET start == start_frame_id
        arg == <<start_frame, min_duration, max_duration>> IN
    /\ preview.pc = "idle"
    /\ IF start = NULL
       THEN /\ last' = Call("save_gif", arg, "ValueError", NoGif)
            /\ preview' = preview
       ELSE /\ last' = Call("save_gif", arg, "running", NoGif)
            /\ preview' = Locals(arg, start, min_duration, max_duration)
    /\ UNCHANGED <<image, frame, transition, start_frame_id, handles, added, in_transaction, adding>>

\* Pikov.save_gif up to the call of _preview_clip: the start frame is the
\* argument, or the stored one when the argument is None; ValueError when
\* both are None.  _preview_clip then sets up its locals.
SaveGif(start_frame, min_duration, max_duration) ==
    LET start == IF start_frame = NULL THEN start_frame_id ELSE start_frame
        arg == <<start_frame, min_duration, max_duration>> IN
    /\ preview.pc = "idle"
    /\ IF start = NULL
       THEN /\ last' = Call("save_gif", arg, "ValueError", NoGif)
            /\ preview' = preview
       ELSE /\ last' = Call("save_gif", arg, "running", NoGif)
            /\ preview' = Locals(arg, start, min_duration, max_duration)
    /\ UNCHANGED <<image, frame, transition, start_frame_id, handles, added, in_transaction, adding>>

\* Mutant: the loop goes on until the minimum is reached, wherever it is.
WhileBelowMinimum == preview.total_duration < preview.min_duration

\* The condition of the while loop of _preview_clip.
WhileCondition ==
    \/ preview.total_duration < preview.min_duration
    \/ preview.next_frame # preview.start_frame

\* save_gif ends with the exception that row[0] of a missing row raises.
PreviewRaises ==
    /\ last' = Call("save_gif", preview.arg, "TypeError", NoGif)
    /\ preview' = Idle

\* The walk reads the database one statement at a time, each committed on
\* its own (the connection has isolation_level None), so that a pass of the
\* while loop is the steps PreviewAppend, GetRandomNextTransitions,
\* GetRandomNextTarget for each transition, and PreviewBreak.

\* The while test is true, and the pass begins: the next frame becomes the
\* current one and is appended, and its duration is read (a Frame whose row
\* is missing fails there) and added.
PreviewAppend ==
    LET current_frame == preview.next_frame IN
    /\ preview.pc = "while"
    /\ WhileCondition
    /\ IF current_frame \notin DOMAIN frame
       THEN PreviewRaises
       ELSE /\ preview' = [preview EXCEPT
                 !.current_frame = current_frame,
                 !.preview_frames = Append(@, current_frame),
                 !.total_duration = @ + frame[current_frame].duration_microseconds,
                 !.pc = "transitions"]
            /\ last' = last
    /\ UNCHANGED <<image, frame, transition, start_frame_id, handles, added, in_transaction, adding>>

\* get_random_next reads self.transitions, the ids of the transitions that
\* leave the current frame; when there is none, target_frames is empty and
\* the frame itself is returned.
GetRandomNextTransitions ==
    LET ids == Transitions(preview.current_frame) IN
    /\ preview.pc = "transitions"
    /\ IF ids = <<>>
       THEN \E next_frame \in RandomNext(preview.current_frame, <<>>) :
               preview' = [preview EXCEPT !.next_frame = next_frame, !.pc = "break"]
       ELSE preview' = [preview EXCEPT !.transitions = ids, !.pc = "target"]
    /\ last' = last
    /\ UNCHANGED <<image, frame, transition, start_frame_id, handles, added, in_transaction, adding>>

\* get_random_next reads the target of the next of the Transition objects
\* it holds, by the id (a row that is gone fails there); after the last of
\* them it returns one of target_frames.
GetRandomNextTarget ==
    LET id == preview.transitions[Len(preview.target_frames) + 1] IN
    /\ preview.pc = "target"
    /\ IF id \notin DOMAIN transition
       THEN PreviewRaises
       ELSE LET target_frames == Append(preview.target_frames,
                                        transition[id].target_frame_id) IN
            /\ IF Len(target_frames) < Len(preview.transitions)
               THEN preview' = [preview EXCEPT !.target_frames = target_frames]
               ELSE \E next_frame \in RandomNext(preview.current_frame, target_frames) :
                       preview' = [preview EXCEPT
                           !.next_frame = next_frame,
                           !.transitions = <<>>,
                           !.target_frames = <<>>,
                           !.pc = "break"]
            /\ last' = last
    /\ UNCHANGED <<image, frame, transition, start_frame_id, handles, added, in_transaction, adding>>

\* The duration of the frame chosen to follow is read, and the loop is left
\* by break when that frame would take the total past max_duration.
PreviewBreak ==
    /\ preview.pc = "break"
    /\ IF preview.next_frame \notin DOMAIN frame
       THEN PreviewRaises
       ELSE /\ preview' = [preview EXCEPT
                 !.pc = IF preview.total_duration
                              + frame[preview.next_frame].duration_microseconds
                              > preview.max_duration
                        THEN "return" ELSE "while"]
            /\ last' = last
    /\ UNCHANGED <<image, frame, transition, start_frame_id, handles, added, in_transaction, adding>>

\* _preview_clip returns Clip(frames=preview_frames), after the break or
\* when the while condition is false, and Pikov.save_gif calls save_gif of
\* that clip, which raises NotFound when it is empty and begins its loop
\* otherwise.
PreviewReturn ==
    /\ \/ preview.pc = "return"
       \/ preview.pc = "while" /\ ~WhileCondition
    /\ IF preview.preview_frames = <<>>
       THEN /\ last' = Call("save_gif", preview.arg, "NotFound", NoGif)
            /\ preview' = Idle
       ELSE /\ last' = last
            /\ preview' = ClipLocals("save_gif", preview.arg, preview.preview_frames)
    /\ UNCHANGED <<image, frame, transition, start_frame_id, handles, added, in_transaction, adding>>

\* ------------------------------------------------------------------ inputs
\* Frame handles are given by an int id (Frame.__init__): the ids of the
\* stored frames and one id that is never stored.
FrameIds == 1..(MaxFrames + 1)

\* The one-pixel images: two RGBA ones and an RGB one that normalizes to
\* the first of them.
SmallImages == {im \in Images : im.size = <<1, 1>>}

SmallKeys == {hash_image(im) : im \in SmallImages} \cup {NoKey}

\* The opaque black RGBA pixel, the image of the frames of SpecHandles.
OneImage == {im \in SmallImages : im.mode = "RGBA" /\ im.data[<<0, 0>>] = <<0, 0, 0, 255>>}

\* Frame handles of SpecHandles: the stored frames and one that is not stored.
HandleFrameIds == DOMAIN frame \cup {NextRowid(frame)}

Handles == DOMAIN handles

\* Room for one more row, under a bound of the specification.
Room(table, max) == Cardinality(DOMAIN table) < max

\* add_image of im adds no row, or there is room for the row it adds.
ImageRoom(im, max) == hash_image(im) \in DOMAIN image \/ Room(image, max)

\* add_frame with the key fails, or there is room for the row it adds.
FrameRoom(key, max) == ~ForeignKeyOk(key, NoKey, image) \/ Room(frame, max)

\* transition_to fails, or the id of the row it adds is within the bound.
TransitionRoom(s, t, max) ==
    \/ ~(ForeignKeyOk(s, NULL, frame) /\ ForeignKeyOk(t, NULL, frame))
    \/ NextRowid(transition) <= max

\* Room for one more frame or transition id in SpecHandles.
HandleRoom == Cardinality(DOMAIN frame) + NextRowid(transition) - 1 < MaxHandleRows

\* No call of add_frame is between its statements.
NoCall == adding = <<>>

\* The store: images, frames, their properties and the start frame, under
\* one caller whose calls are not interrupted.
Next ==
    \/ \E im \in SmallImages : NoCall /\ ImageRoom(im, MaxImages) /\ AddImage(im)
    \/ \E key \in SmallKeys : NoCall /\ GetImage(key)
    \/ \E key \in SmallKeys :
          NoCall /\ FrameRoom(key, MaxFrames) /\ AddFrameInsert(key, NoDuration)
    \/ \E f \in DOMAIN adding : AddFrameUpdate(f)
    \/ \E f \in FrameIds : NoCall /\ GetFrame(f)
    \/ \E f \in FrameIds \cup {NULL} : NoCall /\ SetStartFrame(f)
    \/ \E f \in FrameIds, value \in {PyInt(1), PyObject} :
          NoCall /\ SetProperty(f, "k", value)

Spec == Init /\ [][Next]_vars

\* Frame handles of SpecLookups: the stored frames and one that is not stored.
LookupFrameIds == DOMAIN frame \cup {NextRowid(frame)}

\* Room for one more image, frame or transition id in SpecLookups.
LookupRoom ==
    Cardinality(DOMAIN image) + Cardinality(DOMAIN frame) + NextRowid(transition) - 1
       < MaxLookupRows

\* Every operation that writes to the database, transition_to and
\* Transition.delete included, and the two lookups.
NextLookups ==
    \/ \E im \in SmallImages :
          NoCall /\ (hash_image(im) \in DOMAIN image \/ LookupRoom) /\ AddImage(im)
    \/ \E key \in SmallKeys : NoCall /\ GetImage(key)
    \/ \E key \in SmallKeys :
          /\ NoCall
          /\ ~ForeignKeyOk(key, NoKey, image) \/ LookupRoom
          /\ AddFrameInsert(key, NoDuration)
    \/ \E f \in DOMAIN adding : AddFrameUpdate(f)
    \/ \E f \in LookupFrameIds : NoCall /\ GetFrame(f)
    \/ \E f \in LookupFrameIds \cup {NULL} : NoCall /\ SetStartFrame(f)
    \/ \E f \in LookupFrameIds : NoCall /\ SetProperty(f, "k", PyInt(1))
    \/ \E s, t \in LookupFrameIds :
          /\ NoCall
          /\ ~(ForeignKeyOk(s, NULL, frame) /\ ForeignKeyOk(t, NULL, frame)) \/ LookupRoom
          /\ TransitionTo(s, t, "t1")
    \/ \E v \in Handles : NoCall /\ Delete(v)

SpecLookups == Init /\ [][NextLookups]_vars

\* The content-addressed image table under every image of the bounds, and
\* frames that refer to it.
NextImages ==
    \/ \E im \in Images : NoCall /\ ImageRoom(im, MaxBitmaps) /\ AddImage(im)
    \/ \E key \in DOMAIN image :
          NoCall /\ FrameRoom(key, MaxGraphFrames) /\ AddFrameInsert(key, NoDuration)
    \/ \E f \in DOMAIN adding : AddFrameUpdate(f)

SpecImages == Init /\ [][NextImages]_vars

\* Transitions and their handles, between frames of one image.
NextHandles ==
    \/ \E im \in OneImage : NoCall /\ AddImage(im)
    \/ \E im \in OneImage :
          /\ NoCall
          /\ ~ForeignKeyOk(hash_image(im), NoKey, image) \/ HandleRoom
          /\ AddFrameInsert(hash_image(im), NoDuration)
    \/ \E f \in DOMAIN adding : AddFrameUpdate(f)
    \/ \E s, t \in HandleFrameIds, v \in {"t1", Discard} :
          /\ NoCall
          /\ ~(ForeignKeyOk(s, NULL, frame) /\ ForeignKeyOk(t, NULL, frame)) \/ HandleRoom
          /\ TransitionTo(s, t, v)
    \/ \E f \in HandleFrameIds, i \in 1..(MaxHandleRows - 1) :
          NoCall /\ FrameTransitions(f, i, "t2")
    \/ \E v \in Handles : NoCall /\ ReadSource(v)
    \/ \E v \in Handles : NoCall /\ ReadTarget(v)
    \/ \E v \in Handles : NoCall /\ Delete(v)

SpecHandles == Init /\ [][NextHandles]_vars

\* Frame handles of SpecGraph.
NodeIds == 1..(MaxNodes + 1)

\* The graph: parallel edges, self-loops, deletion through one variable
\* and the two queries over it.
NextGraph ==
    \/ \E im \in OneImage : NoCall /\ AddImage(im)
    \/ \E im \in OneImage :
          /\ NoCall
          /\ FrameRoom(hash_image(im), MaxNodes)
          /\ AddFrameInsert(hash_image(im), NoDuration)
    \/ \E f \in DOMAIN adding : AddFrameUpdate(f)
    \/ \E s, t \in NodeIds, v \in {"t1", Discard} :
          NoCall /\ TransitionRoom(s, t, MaxEdges) /\ TransitionTo(s, t, v)
    \/ \E f \in NodeIds, i \in 1..MaxEdges : NoCall /\ FrameTransitions(f, i, "t1")
    \/ \E v \in Handles : NoCall /\ Delete(v)
    \/ NoCall /\ FindAbsorbingFrames

SpecGraph == Init /\ [][NextGraph]_vars

\* Frame handles of SpecWalk: the stored frames and one that is not stored.
WalkFrameIds == DOMAIN frame \cup {NextRowid(frame)}

\* Room for one more frame or transition in SpecWalk.
WalkRoom == Cardinality(DOMAIN frame) + Cardinality(DOMAIN transition) < MaxWalkRows

\* Durations of the frames of SpecWalk, in microseconds: none and 5 s.
WalkDurations == {<<0>>, <<5000000>>}

\* min_duration of save_gif, in microseconds: none and 8 s.
MinDurations == {0, 8000000}

\* max_duration of save_gif, in microseconds: 1 s and 30 s.
MaxDurations == {1000000, 30000000}

\* The preview: a graph of frames of one image is built, and save_gif
\* walks it; nothing else runs while save_gif does.  A walk that has
\* MaxWalkLen frames and goes on is followed no further.
NextWalk ==
    \/ \E im \in OneImage : NoCall /\ preview.pc = "idle" /\ AddImage(im)
    \/ \E im \in OneImage, duration \in WalkDurations :
          /\ NoCall
          /\ preview.pc = "idle"
          /\ WalkRoom
          /\ AddFrameInsert(hash_image(im), duration)
    \/ \E f \in DOMAIN adding : AddFrameUpdate(f)
    \/ \E s, t \in WalkFrameIds :
          /\ NoCall
          /\ preview.pc = "idle"
          /\ WalkRoom
          /\ TransitionTo(s, t, Discard)
    \/ \E f \in WalkFrameIds \cup {NULL} :
          NoCall /\ preview.pc = "idle" /\ SetStartFrame(f)
    \/ \E f \in WalkFrameIds \cup {NULL}, min_duration \in MinDurations,
          max_duration \in MaxDurations :
             NoCall /\ SaveGif(f, min_duration, max_duration)
    \/ Len(preview.preview_frames) < MaxWalkLen /\ PreviewAppend
    \/ GetRandomNextTransitions
    \/ GetRandomNextTarget
    \/ PreviewBreak
    \/ PreviewReturn
    \/ ClipFrameDuration
    \/ ClipFrameImage
    \/ ClipPreviousImage
    \/ ClipImage
    \/ ClipImageContents

SpecWalk == Init /\ [][NextWalk]_vars

\* Durations of the frames of SpecWalkShared, in microseconds: 5 s.
SharedDurations == {<<5000000>>}

\* The preview of a store that a second connection writes: it adds and
\* deletes transitions between the statements of the walk of the first.
NextWalkShared ==
    \/ \E im \in OneImage : NoCall /\ preview.pc = "idle" /\ AddImage(im)
    \/ \E im \in OneImage, duration \in SharedDurations :
          /\ NoCall
          /\ preview.pc = "idle"
          /\ WalkRoom
          /\ AddFrameInsert(hash_image(im), duration)
    \/ \E f \in DOMAIN adding : AddFrameUpdate(f)
    \/ \E s, t \in DOMAIN frame :
          NoCall /\ WalkRoom /\ TransitionTo(s, t, "t1")
    \/ \E v \in Handles : NoCall /\ Delete(v)
    \/ NoCall /\ SaveGif(1, 8000000, 30000000)
    \/ Len(preview.preview_frames) < MaxWalkLen /\ PreviewAppend
    \/ GetRandomNextTransitions
    \/ GetRandomNextTarget
    \/ PreviewBreak
    \/ PreviewReturn
    \/ ClipFrameDuration
    \/ ClipFrameImage
    \/ ClipPreviousImage
    \/ ClipImage
    \/ ClipImageContents

SpecWalkShared == Init /\ [][NextWalkShared]_vars

\* The images of the frames of SpecClips: the two RGBA images of one pixel.
ClipImages == {im \in SmallImages : im.mode = "RGBA"}

\* Their keys, and None.
ClipKeys == {hash_image(im) : im \in ClipImages} \cup {NoKey}

\* Durations of the frames of SpecClips, in microseconds: 50, 100 and 150 ms.
ClipDurations == {<<50000>>, <<100000>>, <<150000>>}

\* The clips of SpecClips: the empty clip, and the stored frames in the
\* order of their ids.  The frames of an id may have any image and
\* duration, so every sequence of images and durations up to the bound is
\* the content of the clip of some store.
Clips == {<<>>, Ascending(DOMAIN frame)}

\* Clips of frames with equal and different images and several durations.
NextClips ==
    \/ \E im \in ClipImages : NoCall /\ preview.pc = "idle" /\ AddImage(im)
    \/ \E key \in ClipKeys, duration \in ClipDurations :
          /\ NoCall
          /\ preview.pc = "idle"
          /\ FrameRoom(key, MaxClipFrames)
          /\ AddFrameInsert(key, duration)
    \/ \E f \in DOMAIN adding : AddFrameUpdate(f)
    \/ \E frames \in Clips : NoCall /\ ClipSaveGif(frames)
    \/ ClipFrameDuration
    \/ ClipFrameImage
    \/ ClipPreviousImage
    \/ ClipImage
    \/ ClipImageContents

SpecClips == Init /\ [][NextClips]_vars

\* Clip.save_gif of the frames 1 and 2 over a store that a second
\* connection adds images and frames to between the statements of the call.
NextClipsShared ==
    \/ \E im \in ClipImages : NoCall /\ AddImage(im)
    \/ \E key \in DOMAIN image, duration \in ClipDurations :
          NoCall /\ FrameRoom(key, MaxClipFrames) /\ AddFrameInsert(key, duration)
    \/ \E f \in DOMAIN adding : AddFrameUpdate(f)
    \/ ClipSaveGif(<<1, 2>>)
    \/ ClipFrameDuration
    \/ ClipFrameImage
    \/ ClipPreviousImage
    \/ ClipImage
    \/ ClipImageContents

SpecClipsShared == Init /\ [][NextClipsShared]_vars

\* Durations of the frames of SpecTimes, in microseconds: 0.1 and 0.2 ms,
\* and 100 ms.
TimeDurations == {<<100>>, <<200>>, <<100000>>}

\* Clips of frames whose durations are not whole milliseconds.
NextTimes ==
    \/ \E im \in ClipImages : NoCall /\ preview.pc = "idle" /\ AddImage(im)
    \/ \E key \in DOMAIN image, duration \in TimeDurations :
          /\ NoCall
          /\ preview.pc = "idle"
          /\ FrameRoom(key, MaxClipFrames)
          /\ AddFrameInsert(key, duration)
    \/ \E f \in DOMAIN adding : AddFrameUpdate(f)
    \/ \E frames \in Clips : NoCall /\ ClipSaveGif(frames)
    \/ ClipFrameDuration
    \/ ClipFrameImage
    \/ ClipPreviousImage
    \/ ClipImage
    \/ ClipImageContents

SpecTimes == Init /\ [][NextTimes]_vars

\* Frames with property bags: two keys, and the values None, a tuple and
\* an object json.dumps rejects; Frame handles of stored rows and
\* of a row that does not exist.
PropertyKeys == {"a", "b"}

PropertyValues == {PyNone, PyTuple(<<1, 2>>), PyObject}

PropertyFrameIds == DOMAIN frame \cup {NextRowid(frame)}

PropertyRoom == Cardinality(DOMAIN frame) + Cardinality(DOMAIN transition) < MaxPropertyRows

NextProperties ==
    \/ \E im \in OneImage : NoCall /\ AddImage(im)
    \/ \E key \in DOMAIN image :
          NoCall /\ PropertyRoom /\ AddFrameInsert(key, NoDuration)
    \/ \E f \in DOMAIN adding : AddFrameUpdate(f)
    \/ \E s, t \in DOMAIN frame : NoCall /\ PropertyRoom /\ TransitionTo(s, t, Discard)
    \/ \E f \in PropertyFrameIds, key \in PropertyKeys, value \in PropertyValues :
          NoCall /\ SetProperty(f, key, value)
    \/ \E f \in PropertyFrameIds, key \in PropertyKeys, value \in PropertyValues :
          NoCall /\ SetPropertyUpdateFails(f, key, value)
    \/ \E f \in PropertyFrameIds, key \in PropertyKeys : NoCall /\ GetProperty(f, key)

SpecProperties == Init /\ [][NextProperties]_vars

\* Durations of the frames of SpecAtomic, in microseconds: none, zero, one
\* whose seconds are not a float exactly, and a negative one.
AtomicDurations == {NoDuration, <<0>>, <<4100000>>, <<-4100000>>}

\* add_frame statement by statement under up to MaxCallers connections to
\* the file: the calls of the others, add_frame included, run between the
\* two statements of a call, and a call may be interrupted there or fail
\* in its UPDATE.
NextAtomic ==
    \/ \E im \in SmallImages : ImageRoom(im, MaxImages) /\ AddImage(im)
    \/ \E key \in DOMAIN image, duration \in AtomicDurations :
          /\ Cardinality(DOMAIN adding) < MaxCallers
          /\ FrameRoom(key, MaxFrames)
          /\ AddFrameInsert(key, duration)
    \/ \E f \in DOMAIN adding : AddFrameUpdate(f)
    \/ \E f \in DOMAIN adding : AddFrameInterrupted(f)
    \/ \E f \in DOMAIN adding : AddFrameUpdateFails(f)
    \/ \E f \in FrameIds : GetFrame(f)
    \/ \E f \in FrameIds \cup {NULL} : SetStartFrame(f)

SpecAtomic == Init /\ [][NextAtomic]_vars

\* ------------------------------------------------------------------ claims
Tables == <<image, frame, transition, start_frame_id>>

\* C1: add_image of a bitmap (normalized RGBA data) that an earlier add_image
\* was given returns the key the first call returned with inserted = False,
\* and changes no row of any table.
C1_AddImageIdempotent ==
    [][(last'.op = "add_image" /\ Normalize(last'.arg) \in DOMAIN added)
          => /\ last'.outcome = "ok"
             /\ last'.ret = <<added[Normalize(last'.arg)], FALSE>>
             /\ UNCHANGED <<Tables, handles>>]_vars

\* C1 witness: an RGB image is added after an RGBA image with the same
\* normalized bitmap, whose PNG stays the stored one.
C1_Witness ==
    /\ last.op = "add_image"
    /\ last.ret[2] = FALSE
    /\ image[last.ret[1]].contents # PngBytes(last.arg)
    /\ Normalize(PngImage(image[last.ret[1]].contents)) = Normalize(last.arg)

\* C2: the image_key of every stored frame is the key of a stored image.
C2_FrameImageExists == \A f \in DOMAIN frame : frame[f].image_key \in DOMAIN image

\* C4: add_frame with an image_key that is not the key of a stored image
\* raises, and leaves the frame table and the start frame as they were.
C4_AddFrameUnknownKeyFails ==
    [][(last'.op = "add_frame" /\ last'.arg[1] \notin DOMAIN image)
          => /\ last'.outcome = "IntegrityError"
             /\ UNCHANGED <<Tables, handles>>]_vars

\* C5: a successful add_frame makes the new frame the start frame exactly
\* when none was set, so the start frame is set after it; and the start
\* frame changes in no other way than this and an assignment to start_frame.
\* The INSERT of the call adds the frame and leaves the start frame as it
\* was before the call; the UPDATE ends the call.
C5_StartFrameSetIfNull ==
    [][/\ (last'.op = "add_frame" /\ last'.outcome = "running")
            => /\ last'.ret \in DOMAIN frame' \ DOMAIN frame
               /\ start_frame_id' = start_frame_id
       /\ (last'.op = "add_frame" /\ last'.outcome = "ok")
            => /\ last = [last' EXCEPT !.outcome = "running"]
               /\ last'.ret \in DOMAIN frame'
               /\ start_frame_id' = IF start_frame_id = NULL THEN last'.ret
                                     ELSE start_frame_id
               /\ start_frame_id' # NULL
       /\ start_frame_id' # start_frame_id
            => \/ last'.op = "set_start_frame"
               \/ last'.op = "add_frame" /\ start_frame_id = NULL]_vars

\* C5 witness: a second frame was added and the first one is still the
\* start frame.
C5_Witness ==
    /\ last.op = "add_frame"
    /\ last.outcome = "ok"
    /\ last.ret = 2
    /\ start_frame_id = 1

\* C6: the start frame is unset or a stored frame; assigning a Frame whose
\* id is not stored raises and keeps the previous start frame; assigning
\* None clears it.
C6_StartFrameExists ==
    /\ [](start_frame_id = NULL \/ start_frame_id \in DOMAIN frame)
    /\ [][last'.op = "set_start_frame"
            => IF last'.arg = NULL
               THEN last'.outcome = "ok" /\ start_frame_id' = NULL
               ELSE IF last'.arg \in DOMAIN frame
               THEN last'.outcome = "ok" /\ start_frame_id' = last'.arg
               ELSE /\ last'.outcome = "IntegrityError"
                    /\ UNCHANGED <<Tables, handles>>]_vars

\* C6 witness: an assignment of a Frame that is not stored has failed while
\* a start frame was set.
C6_Witness ==
    /\ last.op = "set_start_frame"
    /\ last.outcome = "IntegrityError"
    /\ start_frame_id \in DOMAIN frame

\* C7: the key that add_image returns and the id that add_frame returns
\* are stored when the call returns; rows of image and frame appear only as
\* the result add_image and add_frame return, are never removed by any
\* operation, transition_to and Transition.delete included, and an image
\* row never changes; get_image and get_frame succeed for the stored rows
\* and raise NotFound for everything else.
C7_LookupsForever ==
    [][/\ (last'.op = "add_image" /\ last'.outcome = "ok")
            => last'.ret[1] \in DOMAIN image'
       /\ (last'.op = "add_frame" /\ last'.outcome \in {"running", "ok"})
            => last'.ret \in DOMAIN frame'
       /\ \A k \in DOMAIN image : k \in DOMAIN image' /\ image'[k] = image[k]
       /\ \A f \in DOMAIN frame : f \in DOMAIN frame'
       /\ \A k \in DOMAIN image' \ DOMAIN image :
             last'.op = "add_image" /\ last'.ret = <<k, TRUE>>
       /\ \A f \in DOMAIN frame' \ DOMAIN frame :
             last'.op = "add_frame" /\ last'.ret = f
       /\ last'.op = "get_image"
            => last'.outcome = IF last'.arg \in DOMAIN image THEN "ok" ELSE "NotFound"
       /\ last'.op = "get_frame"
            => last'.outcome = IF last'.arg \in DOMAIN frame THEN "ok" ELSE "NotFound"]_vars

\* C7 witness: an image is found whose key add_image has returned and was
\* given to add_image again, with another encoding of the same bitmap, and
\* to a frame since, which got a property and a transition that was
\* deleted again.
C7_Witness ==
    /\ last.op = "get_image"
    /\ last.outcome = "ok"
    /\ \E v \in DOMAIN handles : handles[v].deleted
    /\ transition = <<>>
    /\ \E bitmap \in DOMAIN added :
          /\ added[bitmap] = last.arg
          /\ PngImage(image[last.arg].contents).mode = "RGB"
    /\ \E f \in DOMAIN frame :
          frame[f].image_key = last.arg /\ frame[f].properties # NullProperties

\* C3: both ends of every stored transition are stored frames, and
\* transition_to with a source or target Frame whose id is not stored
\* raises and adds no transition.
C3_TransitionEndsExist ==
    /\ [](\A t \in DOMAIN transition :
             /\ transition[t].source_frame_id \in DOMAIN frame
             /\ transition[t].target_frame_id \in DOMAIN frame)
    /\ [][(/\ last'.op = "transition_to"
            /\ \/ last'.arg[1] \notin DOMAIN frame
               \/ last'.arg[2] \notin DOMAIN frame)
            => /\ last'.outcome = "IntegrityError"
               /\ UNCHANGED <<Tables, handles>>]_vars

\* C3 witness: transition_to from a stored frame to a Frame that is not
\* stored has failed, next to a stored transition.
C3_Witness ==
    /\ last.op = "transition_to"
    /\ last.outcome = "IntegrityError"
    /\ last.arg[1] \in DOMAIN frame
    /\ last.arg[2] \notin DOMAIN frame
    /\ transition # <<>>

\* The step binds the variable v to a new Transition.
Rebound(v) ==
    /\ last'.op \in {"transition_to", "transitions"}
    /\ last'.outcome = "ok"
    /\ handles'[v] = NewHandle(handles'[v].id)

\* C8: delete() that succeeds marks the handle, and on a marked handle
\* source, target and delete raise ValueError from then on, whatever the
\* handle has cached (the handle stays marked as long as it exists).
C8_DeletedHandleRaises ==
    [][/\ (last'.op = "delete" /\ last'.outcome = "ok") => handles'[last'.arg].deleted
       /\ \A v \in DOMAIN handles :
             handles[v].deleted
               => \/ Rebound(v)
                  \/ /\ handles'[v] = handles[v]
                     /\ (last'.op \in {"source", "target", "delete"} /\ last'.arg = v)
                          => /\ last'.outcome = "ValueError"
                             /\ UNCHANGED Tables]_vars

\* C8 witness: source has raised ValueError on a deleted handle that had
\* cached its source and its target before.
C8_Witness ==
    /\ last.op = "source"
    /\ last.outcome = "ValueError"
    /\ handles[last.arg].deleted
    /\ handles[last.arg].source # NULL
    /\ handles[last.arg].target # NULL

\* C9: delete() that succeeds removes the row of the handle's id and only
\* it: the transitions of its source frame are one fewer, every other row
\* and the start frame are as before, and the handle's id reads the same.
C9_DeleteRemovesOne ==
    [][(last'.op = "delete" /\ last'.outcome = "ok")
          => LET id == handles[last'.arg].id IN
             /\ id \in DOMAIN transition
             /\ DOMAIN transition' = DOMAIN transition \ {id}
             /\ \A t \in DOMAIN transition' : transition'[t] = transition[t]
             /\ Len(SelectTransitions(transition', transition[id].source_frame_id)) =
                   Len(SelectTransitions(transition, transition[id].source_frame_id)) - 1
             /\ UNCHANGED <<image, frame, start_frame_id>>
             /\ handles'[last'.arg].id = id]_vars

\* C10: delete() succeeds only where it removes a stored transition, so a
\* transition that was deleted is not deleted again through any handle.
C10_DeleteAtMostOnce ==
    [][(last'.op = "delete" /\ last'.outcome = "ok")
          => Cardinality(DOMAIN transition') = Cardinality(DOMAIN transition) - 1]_vars

\* The elements of a tuple.
Range(seq) == {seq[k] : k \in DOMAIN seq}

\* The stored transitions whose source is the frame.
Outgoing(table, frame_id) == {t \in DOMAIN table : table[t].source_frame_id = frame_id}

\* C11: for every Frame handle, transitions has the stored transitions whose
\* source is the frame, each once, in ascending order of the target frame
\* id, and is empty for a frame without outgoing transitions; a call of
\* transitions has returned that tuple.
C11_TransitionsOrdered ==
    /\ \A f \in NodeIds :
          LET ids == Transitions(f) IN
          /\ Range(ids) = Outgoing(transition, f)
          /\ Len(ids) = Cardinality(Outgoing(transition, f))
          /\ \A j, k \in DOMAIN ids :
                j < k => transition[ids[j]].target_frame_id <=
                            transition[ids[k]].target_frame_id
          /\ Outgoing(transition, f) = {} => ids = <<>>
    /\ last.op = "transitions" => last.ret = Transitions(last.arg)

\* C11 witness: transitions has returned two transitions of a frame, the
\* one created later first.
C11_Witness ==
    /\ last.op = "transitions"
    /\ Len(last.ret) = 2
    /\ last.ret[1] > last.ret[2]
    /\ transition[last.ret[1]].target_frame_id < transition[last.ret[2]].target_frame_id

\* C12: transition_to between two stored frames succeeds and adds one row
\* with a new id, the source and the target given; the source frame has one
\* more outgoing transition and every other row, the frames, the images and
\* the start frame are as before.
C12_TransitionToAddsOne ==
    [][(/\ last'.op = "transition_to"
        /\ last'.arg[1] \in DOMAIN frame
        /\ last'.arg[2] \in DOMAIN frame)
          => /\ last'.outcome = "ok"
             /\ last'.ret \notin DOMAIN transition
             /\ DOMAIN transition' = DOMAIN transition \cup {last'.ret}
             /\ transition'[last'.ret] = [source_frame_id |-> last'.arg[1],
                                          target_frame_id |-> last'.arg[2]]
             /\ \A t \in DOMAIN transition : transition'[t] = transition[t]
             /\ Len(SelectTransitions(transition', last'.arg[1])) =
                   Len(SelectTransitions(transition, last'.arg[1])) + 1
             /\ UNCHANGED <<image, frame, start_frame_id>>]_vars

\* C12 witness: a second self-loop has been added to a frame.
C12_Witness ==
    /\ last.op = "transition_to"
    /\ last.outcome = "ok"
    /\ last.arg[1] = last.arg[2]
    /\ \E t \in DOMAIN transition :
          /\ t # last.ret
          /\ transition[t] = transition[last.ret]

\* A frame none of whose stored transitions leads to another frame.
IsAbsorbing(table, f) ==
    \A t \in DOMAIN table :
       table[t].source_frame_id = f => table[t].target_frame_id = f

\* C13: find_absorbing_frames has the stored frames without a transition to
\* another frame, each once, in ascending id order; a transition from an
\* absorbing frame to another frame takes that frame and only it out of the
\* result, and a delete that removes a frame's last transition to another
\* frame puts it back.
C13_AbsorbingFrames ==
    /\ [](/\ Range(AbsorbingFrames) = {f \in DOMAIN frame : IsAbsorbing(transition, f)}
          /\ \A j, k \in DOMAIN AbsorbingFrames :
                j < k => AbsorbingFrames[j] < AbsorbingFrames[k]
          /\ frame = <<>> => AbsorbingFrames = <<>>
          /\ last.op = "find_absorbing_frames" => last.ret = AbsorbingFrames)
    /\ [][/\ (/\ last'.op = "transition_to"
              /\ last'.outcome = "ok"
              /\ last'.arg[1] # last'.arg[2]
              /\ last'.arg[1] \in Range(AbsorbingFrames))
                => Range(SelectAbsorbing(frame', transition')) = Range(AbsorbingFrames) \ {last'.arg[1]}
          /\ (last'.op = "delete" /\ last'.outcome = "ok")
                => \A f \in DOMAIN frame :
                      (/\ ~IsAbsorbing(transition, f)
                       /\ IsAbsorbing(transition', f))
                         => /\ f \in Range(SelectAbsorbing(frame', transition'))
                            /\ Range(SelectAbsorbing(frame', transition')) = Range(AbsorbingFrames) \cup {f}]_vars

\* C13 witness: of two frames, the one with a self-loop is reported and the
\* one with a transition to the other is not, after that transition was
\* deleted and added again.
C13_Witness ==
    /\ last.op = "find_absorbing_frames"
    /\ last.ret = <<1>>
    /\ DOMAIN frame = {1, 2}
    /\ \E t \in DOMAIN transition : transition[t] = [source_frame_id |-> 1, target_frame_id |-> 1]
    /\ \E t \in DOMAIN transition : transition[t] = [source_frame_id |-> 2, target_frame_id |-> 1]
    /\ "t1" \in DOMAIN handles
    /\ handles["t1"].deleted

\* The step is the return of _preview_clip: preview holds the locals it
\* returns with.
Returns ==
    /\ preview'.pc \in {"idle", "duration"}
    /\ \/ preview.pc = "return"
       \/ preview.pc = "while" /\ ~WhileCondition

\* The frames A and B are stored with 5 s each, and the transitions of A
\* lead to B and those of B to A.
TwoCycle(A, B) ==
    /\ A # B
    /\ A \in DOMAIN frame
    /\ B \in DOMAIN frame
    /\ frame[A].duration_microseconds = 5000000
    /\ frame[B].duration_microseconds = 5000000
    /\ Outgoing(transition, A) # {}
    /\ Outgoing(transition, B) # {}
    /\ \A t \in Outgoing(transition, A) : transition[t].target_frame_id = B
    /\ \A t \in Outgoing(transition, B) : transition[t].target_frame_id = A

\* The walk runs from A with min_duration 8 s and max_duration 30 s.
WalkOfC14(A) ==
    /\ preview.start_frame = A
    /\ preview.min_duration = 8000000
    /\ preview.max_duration = 30000000

\* C14: on the cycle A->B->A of 5 s frames the walk from A with 8 s and
\* 30 s returns [A, B, A].
C14_TwoCycleWalkABA ==
    [][\A A, B \in DOMAIN frame :
          (Returns /\ TwoCycle(A, B) /\ WalkOfC14(A))
             => preview.preview_frames = <<A, B, A>>]_vars

\* The sum of the durations of the frames of a clip.
RECURSIVE SumDurations(_)
SumDurations(frames) ==
    IF frames = <<>> THEN 0
    ELSE frame[Head(frames)].duration_microseconds + SumDurations(Tail(frames))

\* C15: the durations of the frames the preview walk returns add up to
\* max_duration at most.
C15_WithinMaxDuration ==
    [][Returns
          => /\ preview.total_duration <= preview.max_duration
             /\ SumDurations(preview.preview_frames) <= preview.max_duration]_vars

\* C16: the preview walk terminates under every outcome of the random
\* choices: no pass of the loop that goes on leaves the loop where it was,
\* with the total_duration and the next_frame it began with (the total less
\* the duration of the frame it appended, and that frame), for such a pass
\* can be taken again without end.
C16_WalkTerminates ==
    [][(preview.pc = "break" /\ preview'.pc = "while")
          => <<preview'.total_duration, preview'.next_frame>>
                # <<preview.total_duration
                      - frame[preview.current_frame].duration_microseconds,
                    preview.current_frame>>]_vars

\* C17: the sequence the preview walk returns from a stored start frame is
\* not empty and begins with the start frame.
C17_StartsWithStartFrame ==
    [][(Returns /\ preview.start_frame \in DOMAIN frame)
          => /\ preview.preview_frames # <<>>
             /\ preview.preview_frames[1] = preview.start_frame]_vars

\* (a): the minimum is met and the frame chosen to follow is the start frame.
ClosesLoop ==
    /\ preview.total_duration >= preview.min_duration
    /\ preview.next_frame = preview.start_frame

\* (b): the frame chosen to follow would take the total past max_duration.
PastMaximum ==
    /\ preview.next_frame \in DOMAIN frame
    /\ preview.total_duration + frame[preview.next_frame].duration_microseconds
          > preview.max_duration

\* C18: the preview walk returns only when (a) or (b) holds, and it appends
\* no further frame once (a) holds.
C18_StopsForLoopOrMaximum ==
    [][/\ Returns => (ClosesLoop \/ PastMaximum)
       /\ (preview.pc = "while" /\ preview'.pc = "transitions") => ~ClosesLoop]_vars

\* C18 witness: the walk is about to return below the minimum, because the
\* frame chosen to follow would pass the maximum.
C18_Witness ==
    /\ preview.pc = "return"
    /\ preview.total_duration < preview.min_duration
    /\ preview.next_frame # preview.start_frame
    /\ PastMaximum

\* C19: save_gif without a start_frame argument raises ValueError when the
\* stored start frame is unset, writes nothing and changes no table; else
\* the walk starts at the argument when one is given and at the stored
\* start frame when none is; no step of save_gif changes a table.
C19_MissingStartFrame ==
    [][/\ (preview.pc = "idle" /\ last'.op = "save_gif")
            => IF last'.arg[1] = NULL /\ start_frame_id = NULL
               THEN /\ last'.outcome = "ValueError"
                    /\ last'.ret = NoGif
                    /\ preview' = preview
                    /\ UNCHANGED <<Tables, handles>>
               ELSE /\ last'.outcome = "running"
                    /\ last'.ret = NoGif
                    /\ preview'.pc = "while"
                    /\ preview'.preview_frames = <<>>
                    /\ preview'.next_frame = preview'.start_frame
                    /\ preview'.start_frame = IF last'.arg[1] # NULL THEN last'.arg[1]
                                               ELSE start_frame_id
                    /\ UNCHANGED <<Tables, handles>>
       /\ preview.pc # "idle" => UNCHANGED <<Tables, handles>>]_vars

\* C19 witness: save_gif without a start frame has failed on a repository
\* that has frames, whose start frame was cleared.
C19_Witness ==
    /\ last.op = "save_gif"
    /\ last.outcome = "ValueError"
    /\ last.ret = NoGif
    /\ frame # <<>>
    /\ start_frame_id = NULL

\* The positions of a clip at which a run of equal image keys begins.
RunStarts(frames) ==
    {k \in DOMAIN frames :
        k = 1 \/ frame[frames[k]].image_key # frame[frames[k - 1]].image_key}

\* The last position of the run that begins at position b.
RunEnd(frames, b) ==
    CHOOSE e \in b..Len(frames) :
       /\ \A k \in b..e : frame[frames[k]].image_key = frame[frames[b]].image_key
       /\ e = Len(frames) \/ frame[frames[e + 1]].image_key # frame[frames[b]].image_key

\* The microseconds of the frames at the positions b..e of a clip.
RECURSIVE RunMicroseconds(_, _, _)
RunMicroseconds(frames, b, e) ==
    IF b > e THEN 0
    ELSE frame[frames[b]].duration_microseconds + RunMicroseconds(frames, b + 1, e)

\* The float x is the number n / d, exactly; n is not negative.
FloatIs(x, n, d) == x.sign = 1 /\ Multiply(x.digits, d) = IntDigits(n)

\* C20: Clip.save_gif succeeds on a non-empty clip of frames with stored
\* images and raises otherwise, writing nothing; it writes one encoded frame
\* per maximal run of frames with the same image key, in order, with the
\* image of the run and the sum of its durations, so no two neighbours have
\* the same image; three frames of one image with 100, 150 and 50 ms give
\* one frame of 300 ms.
C20_CoalescesRuns ==
    last.op = "Clip.save_gif"
      => LET frames == last.arg
             written == last.ret
             starts == Ascending(RunStarts(frames)) IN
         /\ last.outcome = "ok"
               <=> /\ frames # <<>>
                   /\ \A k \in DOMAIN frames : frame[frames[k]].image_key \in DOMAIN image
         /\ last.outcome # "ok" => written = NoGif
         /\ last.outcome = "ok"
               => /\ Len(written) = Len(starts)
                  /\ \A j \in DOMAIN written :
                        /\ written[j].image =
                              PngImage(image[frame[frames[starts[j]]].image_key].contents)
                        /\ FloatIs(written[j].duration,
                                   RunMicroseconds(frames, starts[j], RunEnd(frames, starts[j])),
                                   1000)
                  /\ \A j \in DOMAIN written :
                        j > 1 => written[j].image # written[j - 1].image
                  /\ (/\ Len(frames) = 3
                      /\ RunStarts(frames) = {1}
                      /\ frame[frames[1]].duration_microseconds = 100000
                      /\ frame[frames[2]].duration_microseconds = 150000
                      /\ frame[frames[3]].duration_microseconds = 50000)
                        => Len(written) = 1 /\ FloatIs(written[1].duration, 300, 1)

\* C20 witness: a clip of three frames of one image with 100, 150 and 50 ms
\* has been saved as one frame of 300 ms.
C20_Witness ==
    /\ last.op = "Clip.save_gif"
    /\ last.outcome = "ok"
    /\ Len(last.arg) = 3
    /\ RunStarts(last.arg) = {1}
    /\ frame[last.arg[1]].duration_microseconds = 100000
    /\ frame[last.arg[2]].duration_microseconds = 150000
    /\ frame[last.arg[3]].duration_microseconds = 50000
    /\ Len(last.ret) = 1
    /\ FloatIs(last.ret[1].duration, 300, 1)

\* The sum of the display times of the encoded frames of a GIF, added up
\* in order as floats.
RECURSIVE SumWritten(_)
SumWritten(written) ==
    IF Len(written) = 1 THEN written[1].duration
    ELSE FloatPlus(SumWritten(SubSeq(written, 1, Len(written) - 1)),
                   written[Len(written)].duration)

\* C21: coalescing conserves time: each frame that Clip.save_gif writes has
\* the sum of the durations of the frames of its run, which is the display
\* time a single frame of that duration is written with, and the display
\* times of the frames written add up to the total of the durations of all
\* the frames of the clip, whatever the clip it has encoded.
C21_CoalescingConservesTime ==
    (last.op = "Clip.save_gif" /\ last.outcome = "ok")
      => LET frames == last.arg
             written == last.ret
             starts == Ascending(RunStarts(frames)) IN
         /\ frames # <<>>
         /\ Len(written) = Len(starts)
         /\ \A j \in DOMAIN written :
               written[j].duration =
                  Milliseconds(RunMicroseconds(frames, starts[j], RunEnd(frames, starts[j])))
         /\ SumWritten(written) = Milliseconds(RunMicroseconds(frames, 1, Len(frames)))

\* C22: set_property(key, None) removes the key from the stored bag of the
\* frame: after the call the bag has no entry for the key, as if the key had
\* never been set.
C22_NoneRemovesKey ==
    (/\ last.op = "set_property"
     /\ last.outcome = "ok"
     /\ last.arg[3] = PyNone)
      => last.arg[2] \notin DOMAIN GetProperties(last.arg[1])

\* C23: a set_property that succeeds changes that key of that frame only: the
\* bag of the frame maps the key to the value and every other key as before,
\* the image and the duration of the frame, the other frames, the images,
\* the transitions and the start frame are unchanged, and no call fails to
\* leave the tables alone; a get_property(key) that follows returns the
\* value, and get_property of a key the bag never got returns None.
C23_SetPropertyOneKey ==
    [][/\ (last'.op = "set_property" /\ last'.outcome = "ok")
          => LET f == last'.arg[1]
                 key == last'.arg[2]
                 value == last'.arg[3]
                 before == LoadProperties(frame[f].properties)
                 after == LoadProperties(frame'[f].properties) IN
             /\ UNCHANGED <<image, transition, start_frame_id>>
             /\ DOMAIN frame' = DOMAIN frame
             /\ \A g \in DOMAIN frame \ {f} : frame'[g] = frame[g]
             /\ frame'[f].image_key = frame[f].image_key
             /\ frame'[f].duration_microseconds = frame[f].duration_microseconds
             /\ DOMAIN after = DOMAIN before \cup {key}
             /\ after[key] = value
             /\ \A k \in DOMAIN before \ {key} : after[k] = before[k]
       /\ (last'.op = "get_property" /\ last'.arg[1] \in DOMAIN frame)
          => LET bag == LoadProperties(frame[last'.arg[1]].properties) IN
             /\ last'.outcome = "ok"
             /\ last'.ret = IF last'.arg[2] \in DOMAIN bag THEN bag[last'.arg[2]] ELSE PyNone
             /\ (/\ last.op = "set_property"
                 /\ last.outcome = "ok"
                 /\ last'.arg = <<last.arg[1], last.arg[2]>>) => last'.ret = last.arg[3]
       /\ \A f \in DOMAIN frame :
             /\ f \in DOMAIN frame'
             /\ DOMAIN LoadProperties(frame[f].properties)
                   \subseteq DOMAIN LoadProperties(frame'[f].properties)]_vars

\* C24: a set_property that fails (the value cannot be serialized, the row
\* of the frame is missing, the UPDATE fails) raises the error, leaves every
\* table, the property bags included, as it was, and leaves no transaction
\* open; no call ever leaves one open.
C24_SetPropertyRollsBack ==
    [][/\ last'.op = "set_property"
          => /\ (last'.arg[1] \notin DOMAIN frame \/ ~Serializable(last'.arg[3]))
                   => last'.outcome = "TypeError"
             /\ last'.outcome # "ok"
                   => /\ last'.outcome \in {"TypeError", "OperationalError"}
                      /\ UNCHANGED Tables
             /\ in_transaction' = FALSE
       /\ in_transaction' = FALSE]_vars

\* C24 witness: set_property of a value json.dumps rejects has failed on a
\* frame that holds a bag, and no transaction is open.
C24_Witness ==
    /\ last.op = "set_property"
    /\ last.outcome = "TypeError"
    /\ last.arg[3] = PyObject
    /\ last.arg[1] \in DOMAIN frame
    /\ GetProperties(last.arg[1]) # <<>>
    /\ in_transaction = FALSE

\* C25: every stored frame has a strictly positive duration (100 ms when
\* add_frame is given none): no frame with a zero or negative duration is
\* ever in the store.
C25_DurationsPositive ==
    \A f \in DOMAIN frame : frame[f].duration_microseconds > 0

\* The frames a walk may go to from a frame: the targets of the transitions
\* that leave it, and the frame itself when none leaves it.
Successors(f) ==
    IF Outgoing(transition, f) = {}
    THEN {f}
    ELSE {transition[t].target_frame_id : t \in Outgoing(transition, f)}

\* C26: every step of a preview walk follows an edge: each frame of the walk
\* and the frame chosen to come next is the frame before it when that frame
\* has no outgoing transition, and otherwise the target of one of its
\* outgoing transitions; and every such target can be the one chosen.
C26_WalkFollowsEdges ==
    preview.pc # "idle"
      => LET frames == preview.preview_frames IN
         /\ \A k \in 1..(Len(frames) - 1) : frames[k + 1] \in Successors(frames[k])
         /\ (frames # <<>> /\ preview.pc \in {"break", "while", "return"})
               => preview.next_frame \in Successors(frames[Len(frames)])
         /\ (/\ preview.pc = "transitions"
             /\ Outgoing(transition, preview.current_frame) = {})
               => ENABLED (/\ GetRandomNextTransitions
                           /\ preview'.pc = "break"
                           /\ preview'.next_frame = preview.current_frame)
         /\ (/\ preview.pc = "target"
             /\ Len(preview.target_frames) + 1 = Len(preview.transitions))
               => \A n \in Successors(preview.current_frame) :
                     ENABLED (GetRandomNextTarget /\ preview'.next_frame = n)

\* C26 witness: a walk has gone from a frame with two different targets to
\* the other one of them, which has no outgoing transition, and stayed
\* there.
C26_Witness ==
    /\ preview.pc # "idle"
    /\ \E k \in 1..(Len(preview.preview_frames) - 2) :
          LET A == preview.preview_frames[k]
              B == preview.preview_frames[k + 1] IN
          /\ A # B
          /\ Successors(A) = {A, B}
          /\ Outgoing(transition, B) = {}
          /\ preview.preview_frames[k + 2] = B

\* C27: add_frame is all or nothing: when a call has ended, by returning or
\* by being interrupted between the INSERT and the UPDATE of the start
\* frame, there is no state in which the frame it made exists while the
\* start frame is unset; an interrupted call leaves no frame row.
C27_AddFrameAtomic ==
    (last.op = "add_frame" /\ last.outcome # "running")
      => /\ last.ret \in DOMAIN frame => start_frame_id # NULL
         /\ last.outcome # "ok" => last.ret \notin DOMAIN frame

\* C28: once the row of a transition has been deleted, no handle returns its
\* endpoints any more: source and target do not succeed on a handle whose
\* transition is gone, whatever the handle cached before the deletion.
C28_DeletedEndsUnreadable ==
    (/\ last.op \in {"source", "target"}
     /\ handles[last.arg].id \notin DOMAIN transition)
      => last.outcome # "ok"

\* C29: transition ids are never reused: the id transition_to gives to a new
\* row is the id of no Transition object made before, so a handle kept from
\* before a deletion never comes to denote a later transition.
C29_TransitionIdsFresh ==
    [][(last'.op = "transition_to" /\ last'.outcome = "ok")
          => \A v \in DOMAIN handles : handles[v].id # last'.ret]_vars

\* C30: the content key separates different bitmaps, bitmaps of the same
\* pixel sequence with a different width and height included: add_image
\* reports an image as a duplicate only of a stored image with the same
\* normalized bitmap (size and pixels).
C30_KeySeparatesBitmaps ==
    (/\ last.op = "add_image"
     /\ last.outcome = "ok"
     /\ last.ret[2] = FALSE)
      => Normalize(PngImage(image[last.ret[1]].contents)) = Normalize(last.arg)

====
